---- MODULE Spec2Model ----
(***************************************************************************)
(* A model of the RedditBots repository: the filter / handler / reader     *)
(* core of src/src/base_slinky.py and the post rendering of                *)
(* src/stackoverflow_api.py.                                               *)
(***************************************************************************)
EXTENDS Integers, Sequences, FiniteSets, TLC

(***************************************************************************)
(* Bounds of the model.                                                    *)
(***************************************************************************)
\* longest chain the Filter under test is grown to
MaxChain == 3
\* longest chain a handler's own Filter is grown to
MaxHandlerChain == 1
\* number of handle calls made directly on the handlers
MaxCalls == 2
\* longest chain the reader's own rule list is grown to
MaxReaderChain == 1
\* number of add_handler calls on the reader
MaxHandlers == 2
\* number of items the stream yields
MaxFeed == 3
\* number of child comments in the metadata of a post
MaxComments == 2
\* number of get_api calls made
MaxRequests == 3
\* number of submissions the stream of check_posts yields
MaxSubmissions == 2
\* number of words and links in the text of a submission
MaxTokens == 2

(***************************************************************************)
(* Items: asyncpraw Submissions and Comments.  The only attribute the      *)
(* rules of the model look at is the link flair (the example rule in the   *)
(* docstring of Filter.add_rule).                                          *)
(***************************************************************************)
ItemKinds == {"Submission", "Comment"}

Flairs == {"Solved", "Unsolved"}

Items == [kind : ItemKinds, flair : Flairs]

(***************************************************************************)
(* Rules: the values a caller can hand to add_rule.                        *)
(*   "function" a plain callable (item) -> bool, the rule the docstring    *)
(*              of add_rule describes; it has no attribute .filter/.test   *)
(*   "object"   a callable object that also exposes .filter(item) and      *)
(*              .test(item), all three computing the same predicate        *)
(*   "value"    something that is not callable                             *)
(* yes is the set of flairs for which the rule's predicate yields True.    *)
(* Rules compare by identity in Python; here a rule is its record.         *)
(***************************************************************************)
RuleKinds == {"function", "object", "value"}

RulePreds == {{"Unsolved"}, {}}

Rules == [kind : RuleKinds, yes : RulePreds]

\* callable(filter), base_slinky.py:43
callable(r) == r.kind \in {"function", "object"}

\* hasattr(f, 'filter'): what f.filter needs at base_slinky.py:64
HasFilterAttr(r) == r.kind = "object"

\* hasattr(f, 'test'): what f.test needs at base_slinky.py:220 and :264
HasTestAttr(r) == r.kind = "object"

\* the value the rule's predicate yields for the item
RuleYields(r, item) == item.flair \in r.yes

(***************************************************************************)
(* class Filter                                                            *)
(***************************************************************************)
\* filter in self.filters
InChain(chain, r) == \E i \in DOMAIN chain : chain[i] = r

\* list.remove(x): drops the first occurrence
ListRemove(chain, r) ==
    LET i == CHOOSE k \in DOMAIN chain :
                 /\ chain[k] = r
                 /\ \A j \in 1..(k - 1) : chain[j] # r
    IN  SubSeq(chain, 1, i - 1) \o SubSeq(chain, i + 1, Len(chain))

\* a plausible bug: the membership test is dropped
Filter_add_rule_nodedup(chain, r) ==
    IF callable(r) THEN Append(chain, r) ELSE chain

\* Filter.add_rule
Filter_add_rule(chain, r) ==
    IF ~InChain(chain, r) /\ callable(r) THEN Append(chain, r) ELSE chain

\* Filter.remove_rule
Filter_remove_rule(chain, r) ==
    IF InChain(chain, r) THEN ListRemove(chain, r) ELSE chain

RECURSIVE Filter_test_blockdefault(_, _)
\* a plausible bug: the default after the loop is "caught"
Filter_test_blockdefault(chain, item) ==
    IF chain = <<>> THEN "True"
    ELSE LET f == Head(chain)
         IN  IF ~HasFilterAttr(f) THEN "AttributeError"
             ELSE IF ~RuleYields(f, item) THEN "True"
             ELSE Filter_test_blockdefault(Tail(chain), item)

RECURSIVE Filter_test(_, _)
\* Filter.test: "True" (caught), "False" (pass), or the exception raised by
\* the attribute lookup f.filter on a rule that has no such attribute
Filter_test(chain, item) ==
    IF chain = <<>> THEN "False"
    ELSE LET f == Head(chain)
         IN  IF ~HasFilterAttr(f) THEN "AttributeError"
             ELSE IF ~RuleYields(f, item) THEN "True"
             ELSE Filter_test(Tail(chain), item)

RECURSIVE Filter_test_evaluated(_, _)
\* the number of rules Filter.test evaluates (calls f.filter(item) on)
\* before it returns or raises
Filter_test_evaluated(chain, item) ==
    IF chain = <<>> THEN 0
    ELSE LET f == Head(chain)
         IN  IF ~HasFilterAttr(f) THEN 0
             ELSE IF ~RuleYields(f, item) THEN 1
             ELSE 1 + Filter_test_evaluated(Tail(chain), item)

(***************************************************************************)
(* class BaseHandler(Filter) and class LoggerHandler(BaseHandler)          *)
(*                                                                         *)
(* The model holds one BaseHandler object and two LoggerHandler objects.   *)
(* The Filter Chain a handler tests items against is the Filter object in  *)
(* its attribute self.filter (base_slinky.py:166), whose rule list is      *)
(* hfilter[h].                                                             *)
(***************************************************************************)
HandlerNames == {"base", "logger", "logger2"}

\* the handlers handle is called on directly
DirectHandlers == {"base", "logger"}

\* the handlers registered with a reader: BaseHandler is "not designed to be
\* instantiated", LoggerHandler is the handler the module provides
MonitoredHandlers == {"logger", "logger2"}

\* the class each handler object was constructed from
HandlerClass(h) == IF h = "base" THEN "BaseHandler" ELSE "LoggerHandler"

\* The method self.__handler_action(item) names inside class BaseHandler.
\* Python mangles a name with two leading underscores by the class whose
\* body holds it: line 176 reads self._BaseHandler__handler_action, whatever
\* the class of self, and line 300 defines _LoggerHandler__handler_action.
HandlerActionAt176(cls) == "BaseHandler.__handler_action"

\* what running the action does: the base action raises (line 184), the
\* LoggerHandler action logs the item (line 301)
ActionRaises(action) ==
    IF action = "BaseHandler.__handler_action" THEN "NotImplementedError"
    ELSE "none"

\* The values a caller can hand to set_filter: a Filter object holding a
\* rule list, a bare list of rules, or None.
FilterArgKinds == {"Filter", "list", "None"}

FilterArgChains == {<<>>, <<[kind |-> "object", yes |-> {}]>>}

FilterArgs ==
    [kind : {"Filter"}, chain : FilterArgChains]
    \cup {[kind |-> "list", chain |-> <<[kind |-> "object", yes |-> {}]>>],
          [kind |-> "None", chain |-> <<>>]}

\* isinstance(filter, Filter), line 169
IsFilterInstance(x) == x.kind = "Filter"

\* a plausible bug: the argument is assigned without the isinstance test
BaseHandler_set_filter_unchecked(chain, x) ==
    [filter |-> x.chain, raised |-> "none"]

\* BaseHandler.set_filter on a handler whose self.filter holds chain: the
\* rule list self.filter holds afterwards
BaseHandler_set_filter(chain, x) ==
    [filter |-> IF IsFilterInstance(x) THEN x.chain ELSE chain, raised |-> "none"]

\* a plausible bug: handle runs the action without consulting the filter
BaseHandler_handle_nofilter(cls, chain, item) ==
    LET a == HandlerActionAt176(cls)
    IN  [test |-> Filter_test(chain, item), action |-> a, raised |-> ActionRaises(a)]

\* BaseHandler.handle on a handler of class cls whose self.filter holds chain
BaseHandler_handle(cls, chain, item) ==
    LET t == Filter_test(chain, item)
        a == HandlerActionAt176(cls)
    IN  IF t = "AttributeError"
        THEN [test |-> t, action |-> "none", raised |-> "AttributeError"]
        ELSE IF t = "True"
        THEN [test |-> t, action |-> "none", raised |-> "none"]
        ELSE [test |-> t, action |-> a, raised |-> ActionRaises(a)]

(***************************************************************************)
(* class CommentReader(BaseReader) and class SubmissionReader(BaseReader)  *)
(***************************************************************************)
ReaderClasses == {"CommentReader", "SubmissionReader"}

\* the class tested by isinstance at lines 214 and 258
ExpectedKind(rkind) == IF rkind = "CommentReader" THEN "Comment" ELSE "Submission"

\* self.__log_type_warning(Comment(), comment), lines 215, 259 and 273-284.
\* The callee is looked up first: inside class CommentReader the name is
\* self._CommentReader__log_type_warning, which no class defines (the method
\* of line 273 is _SubmissionReader__log_type_warning).  In SubmissionReader
\* the lookup succeeds and the argument Submission() is built next; asyncpraw
\* is not part of the repository, so whether its constructor accepts an empty
\* argument list is left open (ctorOk).
LogTypeWarning(rkind, ctorOk) ==
    IF rkind = "CommentReader" THEN "AttributeError"
    ELSE IF ctorOk THEN "warned" ELSE "TypeError"

RECURSIVE ReaderCheckFilters(_, _)
\* lines 219-221 and 263-265: for f in self.filters: if f.test(item): continue.
\* The continue belongs to this inner for loop, so a true f.test(item) only
\* moves on to the next rule.  caught tells whether the continue was executed.
ReaderCheckFilters(chain, item) ==
    IF chain = <<>> THEN [raised |-> "none", caught |-> FALSE]
    ELSE LET f == Head(chain)
             rest == ReaderCheckFilters(Tail(chain), item)
         IN  IF ~HasTestAttr(f) THEN [raised |-> "AttributeError", caught |-> FALSE]
             ELSE IF RuleYields(f, item)
                  THEN [raised |-> rest.raised, caught |-> TRUE]
                  ELSE rest

\* a plausible bug: the run flag is not consulted
LoopHead_norun(runFlag, rkind, chain, item, ctorOk) ==
    IF item.kind # ExpectedKind(rkind)
    THEN [branch |-> LogTypeWarning(rkind, ctorOk), caught |-> FALSE]
    ELSE LET c == ReaderCheckFilters(chain, item)
         IN  IF c.raised # "none" THEN [branch |-> c.raised, caught |-> c.caught]
             ELSE [branch |-> "accepted", caught |-> c.caught]

\* the part of the loop body before the handlers, lines 210-223 and 254-267:
\* "break", "warned" (type warning logged, continue), "accepted" (the
\* handlers come next), or the exception that leaves the loop
LoopHead(runFlag, rkind, chain, item, ctorOk) ==
    IF ~runFlag THEN [branch |-> "break", caught |-> FALSE]
    ELSE IF item.kind # ExpectedKind(rkind)
    THEN [branch |-> LogTypeWarning(rkind, ctorOk), caught |-> FALSE]
    ELSE LET c == ReaderCheckFilters(chain, item)
         IN  IF c.raised # "none" THEN [branch |-> c.raised, caught |-> c.caught]
             ELSE [branch |-> "accepted", caught |-> c.caught]

\* a plausible bug: monitor sets the run flag again when it is called
MonitorEntry_rearm(runFlag) == TRUE

\* lines 205-208 and 248-251, the part of monitor / monitor_async before the
\* loop: the value of self.run when the loop is entered.  No statement there
\* (nor anywhere after __init__) assigns self.run.
MonitorEntry(runFlag) == runFlag

\* a plausible bug: the handler loop swallows what handle raises
AfterHandle_swallow(raised, i, n) ==
    IF i = n THEN "Waiting" ELSE "Dispatching"

\* lines 226-227 and 270-271, after h.handle(item) for handler i of n: there
\* is no try around the call, so what it raises leaves the loops ("Raised");
\* otherwise the next handler or, after the last one, the next item
AfterHandle(raised, i, n) ==
    IF raised # "none" THEN "Raised"
    ELSE IF i = n THEN "Waiting" ELSE "Dispatching"

\* the filters the handlers of a monitored reader are configured with
MonitoredHandlerChains ==
    {<<>>, <<[kind |-> "object", yes |-> {"Unsolved"}]>>,
     <<[kind |-> "function", yes |-> {"Unsolved"}]>>}

(***************************************************************************)
(* Text (stackoverflow_api.py).  A Python str is modelled as a sequence of *)
(* runs [c, n]: the character c repeated n >= 1 times, so that a body of   *)
(* ten thousand characters stays small.  Len, slicing, concatenation,      *)
(* replace and unescape are computed on the characters the runs stand for. *)
(***************************************************************************)
\* a str literal, from its characters
Lit(chars) == [i \in DOMAIN chars |-> [c |-> chars[i], n |-> 1]]

\* c * n
Rep(c, n) == IF n = 0 THEN <<>> ELSE <<[c |-> c, n |-> n]>>

RECURSIVE StrLen(_)
\* len(s)
StrLen(t) ==
    IF t = <<>> THEN 0
    ELSE IF Len(t) = 1 THEN t[1].n
    ELSE LET h == Len(t) \div 2
         IN  StrLen(SubSeq(t, 1, h)) + StrLen(SubSeq(t, h + 1, Len(t)))

RECURSIVE Prefix(_, _)
\* s[:k]
Prefix(t, k) ==
    IF k = 0 \/ t = <<>> THEN <<>>
    ELSE IF Len(t) = 1
    THEN <<[c |-> t[1].c, n |-> IF t[1].n <= k THEN t[1].n ELSE k]>>
    ELSE LET h == Len(t) \div 2
             left == SubSeq(t, 1, h)
             l == StrLen(left)
         IN  IF k <= l THEN Prefix(left, k)
             ELSE left \o Prefix(SubSeq(t, h + 1, Len(t)), k - l)

RECURSIVE Suffix(_, _)
\* s[k:]
Suffix(t, k) ==
    IF k = 0 \/ t = <<>> THEN t
    ELSE IF Len(t) = 1
    THEN IF t[1].n <= k THEN <<>> ELSE <<[c |-> t[1].c, n |-> t[1].n - k]>>
    ELSE LET h == Len(t) \div 2
             left == SubSeq(t, 1, h)
             right == SubSeq(t, h + 1, Len(t))
             l == StrLen(left)
         IN  IF k >= l THEN Suffix(right, k - l)
             ELSE Suffix(left, k) \o right

RECURSIVE Chars(_)
\* the characters of s, one by one
Chars(t) ==
    IF t = <<>> THEN <<>>
    ELSE <<Head(t).c>> \o Chars(Suffix(t, 1))

\* s.startswith(pat)
StartsWith(t, pat) == StrLen(t) >= Len(pat) /\ Chars(Prefix(t, Len(pat))) = pat

RECURSIVE Replace(_, _, _)
\* s.replace(old, new): the non-overlapping occurrences, left to right
Replace(t, old, new) ==
    IF t = <<>> THEN <<>>
    ELSE IF StartsWith(t, old) THEN Lit(new) \o Replace(Suffix(t, Len(old)), old, new)
    ELSE IF Head(t).c # Head(old) THEN <<Head(t)>> \o Replace(Tail(t), old, new)
    ELSE Rep(Head(t).c, 1) \o Replace(Suffix(t, 1), old, new)

RECURSIVE Unescape(_)
\* html.unescape(s), for the character references &amp; &lt; &gt;
Unescape(t) ==
    IF t = <<>> THEN <<>>
    ELSE IF Head(t).c # "&" THEN <<Head(t)>> \o Unescape(Tail(t))
    ELSE IF StartsWith(t, <<"&", "a", "m", "p", ";">>) THEN Rep("&", 1) \o Unescape(Suffix(t, 5))
    ELSE IF StartsWith(t, <<"&", "l", "t", ";">>) THEN Rep("<", 1) \o Unescape(Suffix(t, 4))
    ELSE IF StartsWith(t, <<"&", "g", "t", ";">>) THEN Rep(">", 1) \o Unescape(Suffix(t, 4))
    ELSE Rep("&", 1) \o Unescape(Suffix(t, 1))

DigitChar(d) == <<"0", "1", "2", "3", "4", "5", "6", "7", "8", "9">>[d + 1]

RECURSIVE Digits(_)
Digits(k) == IF k < 10 THEN Rep(DigitChar(k), 1)
             ELSE Digits(k \div 10) \o Rep(DigitChar(k % 10), 1)

\* str(k), as an f-string formats an int
IntStr(k) == IF k < 0 THEN Rep("-", 1) \o Digits(-k) ELSE Digits(k)

(***************************************************************************)
(* class Post, Answer, Question, Comment                                   *)
(***************************************************************************)
\* the post budget
POST_CHAR_MAX == 10000

\* Post.post_title / Question.post_title
post_title(m) ==
    IF m.variant = "Question" THEN Lit(<<"#", "#">>) \o m.title ELSE <<>>

\* Post.post_body
post_body(m) == Unescape(m.body_markdown)

\* Post.post_footer / Answer.post_footer
post_footer(m) ==
    LET accepted == IF m.variant = "Answer" /\ m.is_accepted
                    THEN Lit(<<" ", "-", " ", "a", "c", "c", "e", "p", "t", "e", "d",
                               " ", "a", "n", "s", "w", "e", "r">>)
                    ELSE <<>>
        raw == Lit(<<"^", "s", "c", "o", "r", "e", ":", " ">>) \o IntStr(m.score)
               \o Lit(<<" ", "-", " ", "a", "u", "t", "h", "o", "r", ":", " ">>)
               \o m.author \o accepted
    IN  Replace(Replace(raw, <<" ">>, <<" ", "^">>), <<" ", "^", " ">>, <<" ", " ">>)

\* Comment.reddit_post
Comment_reddit_post(m) ==
    Lit(<<"[">>) \o IntStr(m.score) \o Lit(<<"]", "(">>) \o m.link
    \o Lit(<<")", " ", "-", " ">>) \o post_body(m)
    \o Lit(<<" ", "-", " ">>) \o m.author

RECURSIVE AppendComments_offbyone(_, _, _, _)
\* a plausible bug: the count logged leaves out the comment that did not fit
AppendComments_offbyone(md, comments, i, appended) ==
    IF i > Len(comments) THEN [md |-> md, appended |-> appended, logged |-> -1]
    ELSE LET rp == Comment_reddit_post(comments[i])
         IN  IF StrLen(md) + StrLen(rp) > POST_CHAR_MAX
             THEN [md |-> md, appended |-> appended, logged |-> Len(comments) - i]
             ELSE AppendComments_offbyone(md \o Lit(<<"\n">>) \o IntStr(i) \o Lit(<<".", " ">>) \o rp,
                                          comments, i + 1, appended + 1)

RECURSIVE AppendComments(_, _, _, _)
\* the loop of lines 70-75 from comment i on: the text, the number of
\* comments appended, and the count the warning of line 73 logs (-1: none)
AppendComments(md, comments, i, appended) ==
    IF i > Len(comments) THEN [md |-> md, appended |-> appended, logged |-> -1]
    ELSE LET rp == Comment_reddit_post(comments[i])
         IN  IF StrLen(md) + StrLen(rp) > POST_CHAR_MAX
             THEN [md |-> md, appended |-> appended, logged |-> Len(comments) - i + 1]
             ELSE AppendComments(md \o Lit(<<"\n">>) \o IntStr(i) \o Lit(<<".", " ">>) \o rp,
                                 comments, i + 1, appended + 1)

\* Post.comments / Comment.comments
comments_of(m) == IF m.variant = "Comment" THEN <<>> ELSE m.comments

\* lines 66-75: the text assembled before the final slice
Assemble(m) ==
    LET head == post_title(m) \o Lit(<<"\n", "\n">>) \o post_body(m)
                \o Lit(<<"\n", "\n">>) \o post_footer(m) \o Lit(<<"\n">>)
    IN  IF m.comment_count > 0
        THEN AppendComments(head \o Lit(<<"\n", "_", "C", "o", "m", "m", "e", "n", "t", "s", "_", "\n">>),
                            comments_of(m), 1, 0)
        ELSE [md |-> head, appended |-> 0, logged |-> -1]

\* a plausible bug: the final slice is left out
Post_reddit_post_noslice(m) ==
    LET a == Assemble(m)
    IN  [text |-> a.md, pre |-> StrLen(a.md), appended |-> a.appended, logged |-> a.logged]

\* Post.reddit_post
Post_reddit_post(m) ==
    LET a == Assemble(m)
    IN  [text |-> Prefix(a.md, POST_CHAR_MAX), pre |-> StrLen(a.md),
         appended |-> a.appended, logged |-> a.logged]

\* reddit_post() of a post of any variant: Comment overrides it (line 124)
reddit_post(m) ==
    IF m.variant = "Comment"
    THEN LET t == Comment_reddit_post(m)
         IN  [text |-> t, pre |-> StrLen(t), appended |-> 0, logged |-> -1]
    ELSE Post_reddit_post(m)

(***************************************************************************)
(* Metadata the question API can return                                    *)
(***************************************************************************)
Variants == {"Question", "Answer", "Comment"}

Bodies == {Rep("x", 12), Rep("x", 9930), Rep("x", 9952), Rep("x", 10020),
           Rep("a", 3) \o Lit(<<"&", "a", "m", "p", ";", "&", "l", "t", ";", "b", "&">>)}

CommentBodies == {Rep("c", 7), Rep("c", 40), Rep("c", 10050)}

Authors == {Lit(<<"A", "l">>), Lit(<<"J", " ", " ", "D">>)}

Scores == {-3, 25}

CommentMetadata ==
    [variant : {"Comment"}, title : {<<>>}, body_markdown : CommentBodies,
     score : {4}, author : {Lit(<<"B", "o">>)}, link : {Lit(<<"u", "/", "1">>)},
     is_accepted : {FALSE}, comment_count : {0}, comments : {<<>>}]

CommentLists == UNION {[1..n -> CommentMetadata] : n \in 0..MaxComments}

PostMetadata ==
    [variant : {"Question", "Answer"}, title : {Lit(<<"T">>)}, body_markdown : Bodies,
     score : Scores, author : Authors, link : {Lit(<<"u">>)},
     is_accepted : BOOLEAN, comment_count : 0..MaxComments, comments : CommentLists]

\* a Question has a title and no is_accepted, an Answer the reverse; the
\* comment_count of the API is the length of the comment list or more
Wellformed(m) ==
    /\ m.variant = "Question" => ~m.is_accepted
    /\ m.comment_count >= Len(m.comments)

Metadata == {m \in PostMetadata : Wellformed(m)} \cup CommentMetadata

(***************************************************************************)
(* The question API (stackoverflow_api.py, get_api).  A response is what   *)
(* requests.get returned: the HTTP status, whether the body is JSON, the   *)
(* number of entries of j['items'] (the answers of the first one when      *)
(* there is one), and the backoff directive j['backoff'] (NoBackoff when   *)
(* the key is absent).                                                     *)
(***************************************************************************)
NoBackoff == -1

BackoffSeconds == {2, 5}

\* an answer of the first item: metadata['is_accepted'], metadata['score']
AnswerData == [is_accepted : BOOLEAN, score : {5, 30}]

\* the answer lists of the modelled questions
AnswerLists ==
    {<<>>,
     <<[is_accepted |-> TRUE, score |-> 5]>>,
     <<[is_accepted |-> FALSE, score |-> 30]>>,
     <<[is_accepted |-> FALSE, score |-> 30], [is_accepted |-> TRUE, score |-> 30]>>}

Responses ==
    [status : {200, 404}, json : BOOLEAN, items : 0..1,
     backoff : {NoBackoff} \cup BackoffSeconds, answers : AnswerLists]

\* the absent result: the value of a bare return and of falling off the end
None == [kind |-> "None"]

\* Question(j), lines 99-101: metadata['items'][0] raises IndexError on an
\* empty item list
Question_init(resp) ==
    IF resp.items = 0 THEN [raised |-> "IndexError", q |-> None]
    ELSE [raised |-> "none", q |-> [kind |-> "Question", answers |-> resp.answers]]

\* the outbound request, the response and the pause, as events
EvGet == [ev |-> "GET", s |-> 0]

EvResponse(resp) == [ev |-> "response", s |-> resp.backoff]

EvSleep(seconds) == [ev |-> "sleep", s |-> seconds]

\* get_api: the Question or None, the events on the wire and the clock, and
\* what was logged last ("error": line 225, "exception": line 244)
get_api(resp) ==
    LET io == <<EvGet, EvResponse(resp)>>
    IN  IF resp.status # 200 THEN [q |-> None, events |-> io, logged |-> "error"]
        ELSE IF ~resp.json THEN [q |-> None, events |-> io, logged |-> "exception"]
        ELSE LET c == Question_init(resp)
             IN  IF c.raised # "none"
                 THEN [q |-> None, events |-> io, logged |-> "exception"]
                 ELSE IF resp.backoff # NoBackoff
                 THEN [q |-> c.q, events |-> Append(io, EvSleep(resp.backoff)),
                       logged |-> "backoff"]
                 ELSE [q |-> c.q, events |-> io, logged |-> "quota"]

(***************************************************************************)
(* class Reddit: check_posts.  The text of a submission is a sequence of   *)
(* tokens, plain words or links stackoverflow.com/questions/<id>.          *)
(***************************************************************************)
MAX_HIGHEST_RATED == 2

MIN_SCORE == 20

\* self.username, read from creds.json
Username == "vbaBot"

SubmissionAuthors == {Username, "AutoModerator", "someone"}

QuestionIds == {11, 22}

Tokens == {[t |-> "words", id |-> 0]} \cup [t : {"link"}, id : QuestionIds]

SelfTexts == UNION {[1..n -> Tokens] : n \in 0..MaxTokens}

Submissions == [author : SubmissionAuthors, selftext : SelfTexts]

IsLink(tok) == tok.t = "link"

\* Reddit.get_question_ids: the ids of the links, in the order of the text
get_question_ids(source) ==
    LET links == SelectSeq(source, IsLink)
    IN  [i \in DOMAIN links |-> links[i].id]

\* a plausible bug: the author of the submission is not looked at
qids_to_handle_anyauthor(sub) == get_question_ids(sub.selftext)

\* lines 160-166: the question ids check_posts goes through for a
\* submission; the continue of line 160 is a statement of the stream loop
\* itself, so a submission of the bot or of AutoModerator is left at once
qids_to_handle(sub) ==
    IF sub.author \in {Username, "AutoModerator"} THEN <<>>
    ELSE get_question_ids(sub.selftext)

\* Answer.is_accepted
is_accepted(a) == a.is_accepted

IsHighRated(a) == a.score >= MIN_SCORE

\* the locals accepted and hghrated of check_posts before their first
\* assignment
Unbound == [bound |-> FALSE, accepted |-> <<>>, hghrated |-> <<>>]

\* line 180, hghrated.sort(key=...)[:MAX_HIGHEST_RATED]: list.sort sorts in
\* place and returns None, and None[:2] raises TypeError
SortThenSlice(hghrated) == "TypeError"

\* lines 186-187: the nested replies to the top-level comment
AnswerReplies(sub, qid, loc) ==
    (IF Len(loc.accepted) > 0
     THEN <<[sub |-> sub, qid |-> qid, to |-> "comment", post |-> "accepted"]>>
     ELSE <<>>)
    \o [i \in DOMAIN loc.hghrated |->
            [sub |-> sub, qid |-> qid, to |-> "comment", post |-> "highest"]]

\* one turn of `for qid in so_qids`, lines 168-187, for submission number
\* sub: the replies posted, the API events, the exception raised, the locals
check_qid(sub, qid, resp, loc) ==
    LET o == get_api(resp)
        top == <<[sub |-> sub, qid |-> qid, to |-> "submission", post |-> "question"]>>
        base == [posted |-> <<>>, events |-> o.events, raised |-> "none", loc |-> loc,
                 q |-> o.q, logged |-> o.logged]
    IN  IF o.q = None
        THEN [base EXCEPT !.raised = "AttributeError"]
        ELSE IF Len(o.q.answers) > 0
        THEN LET bound == [bound |-> TRUE,
                           accepted |-> SelectSeq(o.q.answers, is_accepted),
                           hghrated |-> SelectSeq(o.q.answers, IsHighRated)]
             IN  [base EXCEPT !.posted = top, !.loc = bound,
                              !.raised = SortThenSlice(bound.hghrated)]
        ELSE IF ~loc.bound
        THEN [base EXCEPT !.posted = top, !.raised = "UnboundLocalError"]
        ELSE [base EXCEPT !.posted = top \o AnswerReplies(sub, qid, loc)]

(***************************************************************************)
(* State                                                                   *)
(***************************************************************************)
VARIABLES
    filters,      \* Filter.filters of the Filter under test / of the reader
    last,         \* the last operation on the Filter under test, its result
    removedSome,  \* history: remove_rule has removed a rule from filters
    hfilter,      \* per handler: the rule list of its self.filter
    hstat,        \* per handler: handle calls, blocked calls, action runs
    lastHandle,   \* the last handle call made directly on a handler
    lastSet,      \* the last set_filter call, while the chain it left stands
    rkind,        \* the class of the reader
    handlers,     \* BaseReader.handlers
    run,          \* BaseReader.run
    pc,           \* "Ready", "Waiting" (for the stream), "Dispatching",
                  \* "Stopped" (left by break), "Raised" (left by an exception)
    received,     \* number of items the stream has yielded
    cur,          \* the item of the current iteration, whether a rule of the
                  \* reader caught it (line 264) and whether the reader's own
                  \* test(item) answers "blocked" for it
    hidx,         \* position of the handler loop in self.handlers
    dlog,         \* history: the handle calls of the loop in order: item
                  \* number, handler, what the call raised
    mstat,        \* history: counts of what the loop did, the number of handle
                  \* calls made when the loop was first left through the
                  \* flag (stopLen, -1 before), the calls of monitor after that
    clearedAt,    \* history: items received when run was cleared, -1 before
    clearedIn,    \* history: where the loop was when run was cleared
    served,       \* history: the last dispatch that ended: calls made, handlers registered
    exc,          \* the exception that left the loop
    post,         \* the metadata of the Post object under rendering
    rendered,     \* what reddit_post() returned for it
    apilog,       \* history: requests sent, responses received, pauses made
    lastApi,      \* the last get_api call: its response and what it returned
    bpc,          \* check_posts: "Streaming", "Replying" (in the loop over
                  \* the question ids), "Crashed" (left by an exception)
    cursub,       \* the submission of the current iteration
    pending,      \* the question ids of it still to be handled
    locals,       \* the locals accepted and hghrated of check_posts
    posted,       \* history: the replies posted, in order
    bexc,         \* the exception that left check_posts
    seen,         \* number of submissions the stream has yielded
    yielded       \* history: the submissions yielded: the author, whether
                  \* the text links a question, and the number of API
                  \* requests sent before the submission arrived

filterVars == <<filters, last, removedSome>>

handlerVars == <<hfilter, hstat, lastHandle, lastSet>>

readerVars == <<rkind, handlers, run, pc, received, cur, hidx, dlog, mstat,
                clearedAt, clearedIn, served, exc>>

postVars == <<post, rendered>>

apiVars == <<apilog, lastApi>>

botVars == <<bpc, cursub, pending, locals, posted, bexc, seen, yielded>>

vars == <<filterVars, handlerVars, readerVars, postVars, apiVars, botVars>>

NoOp == [op |-> "none", rule |-> "-", item |-> "-", before |-> <<>>, result |-> "-",
         evaluated |-> 0]

NoHandle == [handler |-> "-", cls |-> "-", test |-> "-", action |-> "-", raised |-> "-"]

NoSet == [handler |-> "-", arg |-> "-", before |-> <<>>, raised |-> "-"]

FilterIdle ==
    /\ filters = <<>>
    /\ last = NoOp
    /\ removedSome = FALSE

HandlersIdle ==
    /\ hfilter = [h \in HandlerNames |-> <<>>]
    /\ hstat = [h \in HandlerNames |-> [calls |-> 0, blocked |-> 0, actions |-> 0]]
    /\ lastHandle = NoHandle
    /\ lastSet = NoSet

NoItem == [item |-> [kind |-> "-", flair |-> "-"], caught |-> FALSE, blocked |-> FALSE]

NoServed == [n |-> 0, calls |-> <<>>, regs |-> <<>>]

ReaderIdle ==
    /\ rkind = "SubmissionReader"
    /\ handlers = <<>>
    /\ run = TRUE
    /\ pc = "Ready"
    /\ received = 0
    /\ cur = NoItem
    /\ hidx = 0
    /\ dlog = <<>>
    /\ mstat = [wrong |-> 0, warnings |-> 0, accepted |-> 0, full |-> 0, caughtCalls |-> 0, blockedCalls |-> 0,
               stopLen |-> -1, restarts |-> 0]
    /\ clearedAt = -1
    /\ clearedIn = "-"
    /\ served = NoServed
    /\ exc = "none"

NoPost == [variant |-> "-"]

NoText == [text |-> <<>>, pre |-> 0, appended |-> 0, logged |-> -1]

PostIdle ==
    /\ post = NoPost
    /\ rendered = NoText

NoCall == [resp |-> "-", q |-> None, logged |-> "-"]

ApiIdle ==
    /\ apilog = <<>>
    /\ lastApi = NoCall

NoSubmission == [author |-> "-", selftext |-> <<>>]

BotIdle ==
    /\ bpc = "Streaming"
    /\ cursub = NoSubmission
    /\ pending = <<>>
    /\ locals = Unbound
    /\ posted = <<>>
    /\ bexc = "none"
    /\ seen = 0
    /\ yielded = <<>>

(***************************************************************************)
(* SpecFilter: a Filter object driven by add_rule, remove_rule and test.   *)
(***************************************************************************)
InitFilter == FilterIdle /\ HandlersIdle /\ ReaderIdle /\ PostIdle /\ ApiIdle /\ BotIdle

AddRule(r) ==
    /\ Len(filters) < MaxChain
    /\ filters' = Filter_add_rule(filters, r)
    /\ last' = [op |-> "add_rule", rule |-> r, item |-> "-",
                before |-> filters, result |-> "-", evaluated |-> 0]
    /\ UNCHANGED <<botVars, apiVars, postVars, removedSome, handlerVars, readerVars>>

RemoveRule(r) ==
    /\ filters' = Filter_remove_rule(filters, r)
    /\ last' = [op |-> "remove_rule", rule |-> r, item |-> "-",
                before |-> filters, result |-> "-", evaluated |-> 0]
    /\ removedSome' = (removedSome \/ filters' # filters)
    /\ UNCHANGED <<botVars, apiVars, postVars, handlerVars, readerVars>>

TestItem(item) ==
    /\ last' = [op |-> "test", rule |-> "-", item |-> item,
                before |-> filters, result |-> Filter_test(filters, item),
                evaluated |-> Filter_test_evaluated(filters, item)]
    /\ UNCHANGED <<botVars, apiVars, postVars, filters, removedSome, handlerVars, readerVars>>

NextFilter ==
    \/ \E r \in Rules : AddRule(r)
    \/ \E r \in Rules : RemoveRule(r)
    \/ \E item \in Items : TestItem(item)

SpecFilter == InitFilter /\ [][NextFilter]_vars

(***************************************************************************)
(* SpecHandler: the two handlers, their filters edited through             *)
(* self.filter.add_rule / remove_rule, and handle called on them directly. *)
(***************************************************************************)
InitHandler == FilterIdle /\ HandlersIdle /\ ReaderIdle /\ PostIdle /\ ApiIdle /\ BotIdle

HandlerAddRule(h, r) ==
    /\ Len(hfilter[h]) < MaxHandlerChain
    /\ hfilter' = [hfilter EXCEPT ![h] = Filter_add_rule(@, r)]
    /\ lastSet' = NoSet
    /\ UNCHANGED <<botVars, apiVars, postVars, filterVars, hstat, lastHandle, readerVars>>

HandlerRemoveRule(h, r) ==
    /\ hfilter' = [hfilter EXCEPT ![h] = Filter_remove_rule(@, r)]
    /\ lastSet' = NoSet
    /\ UNCHANGED <<botVars, apiVars, postVars, filterVars, hstat, lastHandle, readerVars>>

\* h.set_filter(x)
SetFilter(h, x) ==
    /\ LET o == BaseHandler_set_filter(hfilter[h], x)
       IN  /\ hfilter' = [hfilter EXCEPT ![h] = o.filter]
           /\ lastSet' = [handler |-> h, arg |-> x, before |-> hfilter[h],
                          raised |-> o.raised]
    /\ lastHandle' = NoHandle
    /\ UNCHANGED <<botVars, apiVars, postVars, filterVars, hstat, readerVars>>

TotalCalls == hstat["base"].calls + hstat["logger"].calls + hstat["logger2"].calls

Handle(h, item) ==
    /\ TotalCalls < MaxCalls
    /\ LET o == BaseHandler_handle(HandlerClass(h), hfilter[h], item)
       IN  /\ lastHandle' = [handler |-> h, cls |-> HandlerClass(h), test |-> o.test,
                             action |-> o.action, raised |-> o.raised]
           /\ hstat' = [hstat EXCEPT ![h] =
                          [calls   |-> @.calls + 1,
                           blocked |-> @.blocked + (IF o.test = "True" THEN 1 ELSE 0),
                           actions |-> @.actions + (IF o.action # "none" THEN 1 ELSE 0)]]
    /\ UNCHANGED <<botVars, apiVars, postVars, filterVars, hfilter, lastSet, readerVars>>

NextHandler ==
    \/ \E h \in DirectHandlers, r \in Rules : HandlerAddRule(h, r)
    \/ \E h \in DirectHandlers, r \in Rules : HandlerRemoveRule(h, r)
    \/ \E h \in DirectHandlers, item \in Items : Handle(h, item)

SpecHandler == InitHandler /\ [][NextHandler]_vars

(***************************************************************************)
(* SpecSetFilter: one LoggerHandler, its filter edited through             *)
(* self.filter.add_rule / remove_rule and replaced through set_filter, and *)
(* handle called on it.                                                    *)
(***************************************************************************)
InitSetFilter == FilterIdle /\ HandlersIdle /\ ReaderIdle /\ PostIdle /\ ApiIdle /\ BotIdle

NextSetFilter ==
    \/ \E r \in Rules : HandlerAddRule("logger", r)
    \/ \E r \in Rules : HandlerRemoveRule("logger", r)
    \/ \E x \in FilterArgs : SetFilter("logger", x)
    \/ \E item \in Items : Handle("logger", item)

SpecSetFilter == InitSetFilter /\ [][NextSetFilter]_vars

(***************************************************************************)
(* SpecMonitor: a reader is configured (add_rule on the reader, which is   *)
(* itself a Filter, and add_handler), monitor / monitor_async is started,  *)
(* the stream yields items and the run flag is cleared at some point.      *)
(***************************************************************************)
InitMonitor ==
    /\ FilterIdle
    /\ PostIdle
    /\ ApiIdle
    /\ BotIdle
    /\ hfilter \in {f \in [HandlerNames -> MonitoredHandlerChains] :
                       \A h \in HandlerNames \ MonitoredHandlers : f[h] = <<>>}
    /\ hstat = [h \in HandlerNames |-> [calls |-> 0, blocked |-> 0, actions |-> 0]]
    /\ lastHandle = NoHandle
    /\ lastSet = NoSet
    /\ rkind \in ReaderClasses
    /\ handlers = <<>>
    /\ run = TRUE
    /\ pc = "Ready"
    /\ received = 0
    /\ cur = NoItem
    /\ hidx = 0
    /\ dlog = <<>>
    /\ mstat = [wrong |-> 0, warnings |-> 0, accepted |-> 0, full |-> 0, caughtCalls |-> 0, blockedCalls |-> 0,
               stopLen |-> -1, restarts |-> 0]
    /\ clearedAt = -1
    /\ clearedIn = "-"
    /\ served = NoServed
    /\ exc = "none"

\* reader.add_rule(r), before the loop starts
ReaderAddRule(r) ==
    /\ pc = "Ready"
    /\ Len(filters) < MaxReaderChain
    /\ filters' = Filter_add_rule(filters, r)
    /\ UNCHANGED <<botVars, apiVars, postVars, last, removedSome, handlerVars, readerVars>>

\* BaseReader.add_handler
AddHandler(h) ==
    /\ Len(handlers) < MaxHandlers
    /\ handlers' = Append(handlers, h)
    /\ UNCHANGED <<botVars, apiVars, postVars, filterVars, handlerVars, rkind, run, pc, received, cur, hidx,
                   dlog, mstat, clearedAt, clearedIn, served, exc>>

\* monitor / monitor_async is called and reaches the async for
StartMonitor ==
    /\ pc = "Ready"
    /\ pc' = "Waiting"
    /\ run' = MonitorEntry(run)
    /\ UNCHANGED <<botVars, apiVars, postVars, filterVars, handlerVars, rkind, handlers, received, cur,
                   hidx, dlog, mstat, clearedAt, clearedIn, served, exc>>

\* monitor / monitor_async is called again on the instance whose loop was
\* left through the run flag
Restart ==
    /\ pc = "Stopped"
    /\ pc' = "Waiting"
    /\ run' = MonitorEntry(run)
    /\ mstat' = [mstat EXCEPT !.restarts = @ + 1]
    /\ UNCHANGED <<botVars, apiVars, postVars, filterVars, handlerVars, rkind, handlers, received, cur,
                   hidx, dlog, clearedAt, clearedIn, served, exc>>

\* the run flag is cleared, by a handler or by another task
ClearRun ==
    /\ pc \in {"Ready", "Waiting", "Dispatching"}
    /\ run
    /\ run' = FALSE
    /\ clearedAt' = received
    /\ clearedIn' = pc
    /\ UNCHANGED <<botVars, apiVars, postVars, filterVars, handlerVars, rkind, handlers, pc, received, cur,
                   hidx, dlog, mstat, served, exc>>

\* the stream yields an item: the loop body up to the handler loop
Receive(item, ctorOk) ==
    /\ pc = "Waiting"
    /\ received < MaxFeed
    /\ received' = received + 1
    /\ LET hd == LoopHead(run, rkind, filters, item, ctorOk)
           wrongKind == run /\ item.kind # ExpectedKind(rkind)
       IN  /\ cur' = [item |-> item, caught |-> hd.caught,
                       blocked |-> Filter_test(filters, item) = "True"]
           /\ mstat' = [mstat EXCEPT
                  !.wrong = @ + (IF wrongKind THEN 1 ELSE 0),
                  !.warnings = @ + (IF hd.branch = "warned" THEN 1 ELSE 0),
                  !.accepted = @ + (IF hd.branch = "accepted" THEN 1 ELSE 0),
                  !.stopLen = IF hd.branch = "break" /\ @ = -1 THEN Len(dlog) ELSE @,
                  !.full = @ + (IF hd.branch = "accepted" /\ handlers = <<>> THEN 1 ELSE 0)]
           /\ pc' = CASE hd.branch = "break" -> "Stopped"
                      [] hd.branch = "warned" -> "Waiting"
                      [] hd.branch = "accepted" ->
                             IF handlers = <<>> THEN "Waiting" ELSE "Dispatching"
                      [] OTHER -> "Raised"
           /\ exc' = IF hd.branch \in {"AttributeError", "TypeError"} THEN hd.branch ELSE exc
           /\ hidx' = IF hd.branch = "accepted" /\ handlers # <<>> THEN 1 ELSE 0
           /\ served' = IF hd.branch = "accepted" /\ handlers = <<>>
                        THEN [n |-> received + 1, calls |-> <<>>, regs |-> handlers]
                        ELSE served
    /\ UNCHANGED <<botVars, apiVars, postVars, filterVars, handlerVars, rkind, handlers, run, dlog, clearedAt, clearedIn>>

\* the calls the loop has made for the current item
CurCalls == [i \in 1..(hidx - 1) |-> handlers[i]]

\* one turn of the handler loop, lines 226-227 and 270-271: h.handle(item)
Dispatch ==
    /\ pc = "Dispatching"
    /\ LET h == handlers[hidx]
           o == BaseHandler_handle(HandlerClass(h), hfilter[h], cur.item)
           calls == Append(CurCalls, h)
           next == AfterHandle(o.raised, hidx, Len(handlers))
           ends == next # "Dispatching"
       IN  /\ dlog' = Append(dlog, [n |-> received, h |-> h, raised |-> o.raised])
           /\ mstat' = [mstat EXCEPT
                  !.caughtCalls = @ + (IF cur.caught THEN 1 ELSE 0),
                  !.blockedCalls = @ + (IF cur.blocked THEN 1 ELSE 0),
                  !.full = @ + (IF next = "Waiting" THEN 1 ELSE 0)]
           /\ exc' = IF next = "Raised" THEN o.raised ELSE exc
           /\ pc' = next
           /\ hidx' = IF ends THEN 0 ELSE hidx + 1
           /\ served' = IF ends THEN [n |-> received, calls |-> calls, regs |-> handlers]
                        ELSE served
    /\ UNCHANGED <<botVars, apiVars, postVars, filterVars, handlerVars, rkind, handlers, run, received, cur, clearedAt, clearedIn>>

NextMonitor ==
    \/ \E r \in Rules : ReaderAddRule(r)
    \/ \E h \in MonitoredHandlers : AddHandler(h)
    \/ StartMonitor
    \/ Restart
    \/ ClearRun
    \/ \E item \in Items, ctorOk \in BOOLEAN : Receive(item, ctorOk)
    \/ Dispatch

SpecMonitor == InitMonitor /\ [][NextMonitor]_vars

(***************************************************************************)
(* SpecPost: a Post object is built from metadata and rendered.            *)
(***************************************************************************)
InitPost == FilterIdle /\ HandlersIdle /\ ReaderIdle /\ PostIdle /\ ApiIdle /\ BotIdle

\* Question(metadata) / Answer(metadata) / Comment(metadata)
NewPost(m) ==
    /\ post = NoPost
    /\ post' = m
    /\ UNCHANGED <<botVars, apiVars, filterVars, handlerVars, readerVars, rendered>>

\* post.reddit_post()
RedditPost ==
    /\ post # NoPost
    /\ rendered = NoText
    /\ rendered' = reddit_post(post)
    /\ UNCHANGED <<botVars, apiVars, filterVars, handlerVars, readerVars, post>>

NextPost ==
    \/ \E m \in Metadata : NewPost(m)
    \/ RedditPost

SpecPost == InitPost /\ [][NextPost]_vars

(***************************************************************************)
(* SpecApi: get_api is called for one question id after another.           *)
(***************************************************************************)
InitApi == FilterIdle /\ HandlersIdle /\ ReaderIdle /\ PostIdle /\ ApiIdle /\ BotIdle

\* the number of requests sent so far
Requests == Cardinality({i \in DOMAIN apilog : apilog[i].ev = "GET"})

\* get_api(question_id, app_key), answered by resp
GetApi(resp) ==
    /\ Requests < MaxRequests
    /\ LET o == get_api(resp)
       IN  /\ apilog' = apilog \o o.events
           /\ lastApi' = [resp |-> resp, q |-> o.q, logged |-> o.logged]
    /\ UNCHANGED <<botVars, filterVars, handlerVars, readerVars, postVars>>

NextApi == \E resp \in Responses : GetApi(resp)

SpecApi == InitApi /\ [][NextApi]_vars

(***************************************************************************)
(* SpecBot: check_posts consumes the stream of new submissions.            *)
(***************************************************************************)
InitBot == FilterIdle /\ HandlersIdle /\ ReaderIdle /\ PostIdle /\ ApiIdle /\ BotIdle

\* the stream yields a submission: lines 158-167
StreamYields(sub) ==
    /\ bpc = "Streaming"
    /\ seen < MaxSubmissions
    /\ seen' = seen + 1
    /\ cursub' = sub
    /\ yielded' = Append(yielded, [author |-> sub.author,
                                   linked |-> get_question_ids(sub.selftext) # <<>>,
                                   requests |-> Requests])
    /\ LET so_qids == qids_to_handle(sub)
       IN  /\ pending' = so_qids
           /\ bpc' = IF Len(so_qids) > 0 THEN "Replying" ELSE "Streaming"
    /\ UNCHANGED <<locals, posted, bexc, apiVars, filterVars, handlerVars, readerVars, postVars>>

\* one turn of the loop over the question ids, the API answering with resp
HandleQid(resp) ==
    /\ bpc = "Replying"
    /\ Requests < MaxRequests
    /\ LET o == check_qid(seen, Head(pending), resp, locals)
       IN  /\ apilog' = apilog \o o.events
           /\ lastApi' = [resp |-> resp, q |-> o.q, logged |-> o.logged]
           /\ posted' = posted \o o.posted
           /\ locals' = o.loc
           /\ bexc' = o.raised
           /\ pending' = IF o.raised # "none" THEN pending ELSE Tail(pending)
           /\ bpc' = IF o.raised # "none" THEN "Crashed"
                     ELSE IF Len(pending) = 1 THEN "Streaming" ELSE "Replying"
    /\ UNCHANGED <<cursub, seen, yielded, filterVars, handlerVars, readerVars, postVars>>

NextBot ==
    \/ \E sub \in Submissions : StreamYields(sub)
    \/ \E resp \in Responses : HandleQid(resp)

SpecBot == InitBot /\ [][NextBot]_vars

(***************************************************************************)
(* Claims about the Filter Chain (SpecFilter)                              *)
(***************************************************************************)
\* the orderings of a duplicate-free chain
Orderings(chain) ==
    {c \in [1..Len(chain) -> {chain[i] : i \in DOMAIN chain}] :
        \A i, j \in 1..Len(chain) : i # j => c[i] # c[j]}

\* C1: test(item) returns true exactly when at least one rule of the chain
\* blocks the item, a rule blocking an item exactly when its predicate yields
\* true for it, and every ordering of the rules gives the same result.
C1_TestBlocksIffSomeRuleBlocks ==
    last.op = "test" =>
        /\ (last.result = "True") <=>
               (\E i \in DOMAIN last.before : RuleYields(last.before[i], last.item))
        /\ \A c \in Orderings(last.before) : Filter_test(c, last.item) = last.result

\* C8: a chain never holds a rule twice, and add_rule of a rule that is
\* already in the chain leaves the chain as it was.
C8_NoRuleTwice ==
    /\ \A i, j \in DOMAIN filters : i # j => filters[i] # filters[j]
    /\ (last.op = "add_rule" /\ InChain(last.before, last.rule)) => filters = last.before

\* a rule was removed earlier and a rule already present was added again
C8_Witness ==
    /\ last.op = "add_rule"
    /\ InChain(last.before, last.rule)
    /\ Len(filters) >= 2
    /\ removedSome

\* C9: test on an empty chain returns false (pass) for every item.
C9_EmptyChainPasses ==
    (last.op = "test" /\ last.before = <<>>) => last.result = "False"

\* an item tested on a chain that remove_rule returned to empty
C9_Witness ==
    /\ last.op = "test"
    /\ last.before = <<>>
    /\ removedSome
    /\ last.result = "False"

\* the positions of the rules of the chain that block the item: a rule
\* blocks an item when its predicate yields true for it
Blocking(chain, item) == {i \in DOMAIN chain : RuleYields(chain[i], item)}

\* C20: test evaluates the rules in insertion order and stops at the first
\* rule that blocks the item: when some rule blocks, test returns true
\* having evaluated that rule and the ones before it, and none after it.
C20_TestShortCircuits ==
    (last.op = "test" /\ Blocking(last.before, last.item) # {}) =>
        /\ last.result = "True"
        /\ \A i \in Blocking(last.before, last.item) : last.evaluated <= i
        /\ last.evaluated \in Blocking(last.before, last.item)

(***************************************************************************)
(* Claims about the handlers (SpecHandler)                                 *)
(***************************************************************************)
\* C2: handle(item) does not invoke the action when the handler's own chain
\* blocks the item; over handle calls with blocked items only, the action
\* invocation count of the handler stays zero.
C2_BlockedItemNeverActs ==
    /\ \A h \in HandlerNames :
           hstat[h].calls = hstat[h].blocked => hstat[h].actions = 0
    /\ lastHandle.test = "True" => (lastHandle.action = "none" /\ lastHandle.raised = "none")

\* a handler that was handed two items, both blocked by its chain
C2_Witness ==
    \E h \in DirectHandlers :
        /\ hstat[h].blocked >= 2
        /\ hstat[h].calls = hstat[h].blocked
        /\ lastHandle.handler = h
        /\ lastHandle.test = "True"

\* C3: a LoggerHandler whose chain does not block the item runs its own
\* action, which logs the item; the base "not implemented" action is reached
\* only by an unspecialised BaseHandler.
C3_LoggerHandlerRunsOwnAction ==
    /\ (lastHandle.cls = "LoggerHandler" /\ lastHandle.test = "False") =>
           (lastHandle.action = "LoggerHandler.__handler_action" /\ lastHandle.raised = "none")
    /\ lastHandle.action = "BaseHandler.__handler_action" => lastHandle.cls = "BaseHandler"

(***************************************************************************)
(* Claims about set_filter (SpecSetFilter)                                 *)
(***************************************************************************)
\* C14: set_filter(x) replaces the handler's chain by x when x is a Filter,
\* and for any other argument raises nothing and leaves the chain, and with
\* it the outcome of handle for every item, as it was.
C14_SetFilterOnlyTakesFilters ==
    lastSet # NoSet =>
        LET h == lastSet.handler
        IN  /\ lastSet.raised = "none"
            /\ IsFilterInstance(lastSet.arg) => hfilter[h] = lastSet.arg.chain
            /\ ~IsFilterInstance(lastSet.arg) =>
                   /\ hfilter[h] = lastSet.before
                   /\ \A item \in Items :
                          BaseHandler_handle(HandlerClass(h), hfilter[h], item)
                              = BaseHandler_handle(HandlerClass(h), lastSet.before, item)

\* set_filter with a bare list of other rules was ignored by a handler whose
\* chain holds a rule, and the handle call that followed was blocked by the
\* chain that was kept
C14_Witness ==
    /\ lastSet # NoSet
    /\ lastSet.arg.kind = "list"
    /\ lastSet.arg.chain # lastSet.before
    /\ lastSet.before # <<>>
    /\ lastHandle.handler = lastSet.handler
    /\ lastHandle.test = "True"

(***************************************************************************)
(* Claims about the monitor loop (SpecMonitor)                             *)
(***************************************************************************)
\* C4: an item blocked by the monitor's own chain is skipped: it is
\* dispatched to no registered handler.  No handle call is made for an item
\* for which a rule of the monitor's chain answered "blocked" in the loop,
\* nor for one the monitor's own test(item) blocks.
C4_CaughtItemNotDispatched ==
    /\ mstat.caughtCalls = 0
    /\ mstat.blockedCalls = 0

\* C5: when the loop is left through the run flag, cleared while k items had
\* been received, the items fully dispatched are those k items (less the ones
\* of the wrong kind, none in a feed of correct-kind items), and no handler
\* ever sees an item received after the flag was cleared.
C5_ShutdownAfterKItems ==
    /\ pc = "Stopped" => mstat.full = clearedAt - mstat.wrong
    /\ clearedAt >= 0 => \A i \in DOMAIN dlog : dlog[i].n <= clearedAt

\* the flag cleared during the handler loop of item 2 of a correct-kind
\* feed, item 3 received and the loop left: two items dispatched, not three
C5_Witness ==
    /\ pc = "Stopped"
    /\ clearedIn = "Dispatching"
    /\ clearedAt = 2
    /\ received = 3
    /\ mstat.wrong = 0
    /\ mstat.full = 2
    /\ Len(dlog) >= 2

\* C6: an item of the wrong kind logs one type-mismatch warning, reaches no
\* handler and does not end the loop, in both readers.
C6_TypeMismatchRecoverable ==
    /\ mstat.warnings = mstat.wrong
    /\ pc = "Raised" => cur.item.kind = ExpectedKind(rkind)
    /\ pc = "Dispatching" => cur.item.kind = ExpectedKind(rkind)

\* C7: every dispatch of an accepted item calls handle on every registered
\* handler once per registration, in registration order, and the calls for
\* one item are over before the first call for the next.
C7_EveryHandlerInOrder ==
    /\ served.calls = served.regs
    /\ \A i, j \in DOMAIN dlog : i < j => dlog[i].n <= dlog[j].n

\* C15: what a handler's handle call raises (the exception of its action
\* included) is not caught by the monitor: the loop ends with that
\* exception, the call is the last handle call made, so the handlers after
\* the failing one do not get the item, and no later item is taken from the
\* feed or dispatched.
C15_HandlerExceptionEndsLoop ==
    \A i \in DOMAIN dlog :
        dlog[i].raised # "none" =>
            /\ i = Len(dlog)
            /\ pc = "Raised"
            /\ exc = dlog[i].raised
            /\ received = dlog[i].n
            /\ served.n = dlog[i].n
            /\ served.calls = SubSeq(served.regs, 1, Len(served.calls))
            /\ served.calls[Len(served.calls)] = dlog[i].h

\* the action of the first of two registered handlers raised on the second
\* item: the second handler did not get the item and the feed is not used up
C15_Witness ==
    /\ pc = "Raised"
    /\ exc = "NotImplementedError"
    /\ received = 2
    /\ Len(dlog) >= 2
    /\ Len(served.regs) = 2
    /\ Len(served.calls) = 1
    /\ served.regs[1] # served.regs[2]

\* C16: when the run flag is cleared while item i is being dispatched,
\* every registered handler still gets item i: the dispatch of item i ends
\* with one handle call per registered handler, and until it has ended the
\* loop keeps dispatching.
C16_InFlightDispatchCompletes ==
    clearedIn = "Dispatching" =>
        /\ served.n = clearedAt => served.calls = served.regs
        /\ served.n < clearedAt => pc = "Dispatching"

\* C17: once the loop has been left through the cleared run flag, the
\* instance makes no further handle call, whatever is called on it
\* afterwards, monitor included, and its flag stays cleared.
C17_StoppedIsTerminal ==
    mstat.stopLen >= 0 =>
        /\ Len(dlog) = mstat.stopLen
        /\ ~run
        /\ pc \in {"Stopped", "Waiting"}

\* an instance that had dispatched an item was stopped, monitor was called
\* on it again with a handler registered, and the stream yielded an item
C17_Witness ==
    /\ mstat.stopLen >= 1
    /\ mstat.restarts >= 1
    /\ pc = "Stopped"
    /\ received = 3
    /\ clearedAt = 1
    /\ Len(handlers) >= 1

(***************************************************************************)
(* Claims about post rendering (SpecPost)                                  *)
(***************************************************************************)
\* C10 as stated: for every post variant, Question, Answer and Comment, the
\* text reddit_post() returns is at most POST_CHAR_MAX characters long.
C10_EveryVariantWithinBudget ==
    StrLen(rendered.text) <= POST_CHAR_MAX

\* C10 as amended: the text reddit_post() returns for a Question or an
\* Answer is at most POST_CHAR_MAX characters long, whatever the body and
\* the child comments.
C10_PostWithinBudget ==
    post.variant \in {"Question", "Answer"} => StrLen(rendered.text) <= POST_CHAR_MAX

\* a post with an appended comment whose assembled text was over the
\* budget and was cut to exactly the budget
C10_Witness ==
    /\ post.variant \in {"Question", "Answer"}
    /\ rendered.appended >= 1
    /\ rendered.pre > POST_CHAR_MAX
    /\ StrLen(rendered.text) = POST_CHAR_MAX

\* the API requests sent while submission number k was the current one
RequestsFor(k) ==
    (IF k < Len(yielded) THEN yielded[k + 1].requests ELSE Requests) - yielded[k].requests

\* C21: for a submission authored by the bot's own account or by
\* AutoModerator, whatever links its text holds, no question-API request is
\* made and no reply is posted, and check_posts goes on with the stream.
C21_NoReplyToSelf ==
    /\ \A k \in DOMAIN yielded :
           yielded[k].author \in {Username, "AutoModerator"} =>
               /\ RequestsFor(k) = 0
               /\ \A i \in DOMAIN posted : posted[i].sub # k
    /\ cursub.author \in {Username, "AutoModerator"} => (bpc = "Streaming" /\ pending = <<>>)

\* a submission of the bot itself with a question link in its text was
\* passed over, and the next submission, of someone else, got its reply
C21_Witness ==
    /\ Len(yielded) = 2
    /\ yielded[1].author = Username
    /\ yielded[1].linked
    /\ yielded[2].author = "someone"
    /\ posted # <<>>
    /\ RequestsFor(2) >= 1

(***************************************************************************)
(* Claims about the question API (SpecApi)                                 *)
(***************************************************************************)
\* C11: every response that carries a backoff directive of S seconds is
\* followed by a pause of S seconds before the next request goes out (and
\* before get_api returns), also when the body cannot be turned into a
\* Question.
C11_BackoffBeforeNextRequest ==
    \A i \in DOMAIN apilog :
        (apilog[i].ev = "response" /\ apilog[i].s # NoBackoff /\ i < Len(apilog)) =>
            apilog[i + 1] = EvSleep(apilog[i].s)

(***************************************************************************)
(* Claims about check_posts (SpecBot)                                      *)
(***************************************************************************)
\* C12: when the question API answers with a non-200 status, get_api logs
\* the error and yields no result, and check_posts posts no reply for that
\* question id, raises no error and goes on with the remaining question
\* ids and submissions.
C12_Non200IsNothingToPost ==
    (lastApi # NoCall /\ lastApi.resp.status # 200) =>
        /\ lastApi.q = None
        /\ lastApi.logged = "error"
        /\ bexc = "none"
        /\ bpc # "Crashed"

\* C13: for a submission of another author that links a question with an
\* accepted answer, check_posts posts the question as a reply to the
\* submission, then the accepted answer as a reply to that comment, and
\* goes on consuming the stream.
C13_AcceptedAnswerNestedReply ==
    (lastApi.q # None /\ \E k \in DOMAIN lastApi.q.answers : lastApi.q.answers[k].is_accepted) =>
        /\ bpc # "Crashed"
        /\ \E i, j \in DOMAIN posted :
               /\ i < j
               /\ posted[i].sub = seen /\ posted[j].sub = seen
               /\ posted[i].qid = posted[j].qid
               /\ posted[i].to = "submission" /\ posted[i].post = "question"
               /\ posted[j].to = "comment" /\ posted[j].post = "accepted"

\* C18: a comment is appended only if the text with its enumerated line
\* appended stays within the budget, so whenever a comment was appended the
\* text assembled before the final slice is at most POST_CHAR_MAX long; the
\* comments appended are a prefix of the comment list.
C18_CommentsNeverExceedBudget ==
    /\ rendered.appended >= 1 => rendered.pre <= POST_CHAR_MAX
    /\ post # NoPost => rendered.appended <= Len(comments_of(post))

\* C19: when the comment loop stops because of the budget the count logged
\* is the number of comments not appended, and when no count is logged
\* every comment was appended.
C19_LoggedCountIsOmittedCount ==
    (post # NoPost /\ rendered # NoText /\ post.variant \in {"Question", "Answer"}) =>
        /\ rendered.logged # -1 =>
               /\ rendered.logged = Len(post.comments) - rendered.appended
               /\ rendered.logged >= 1
        /\ rendered.logged = -1 => rendered.appended = Len(post.comments)

\* the first of two comments fitted and the second did not: one omitted
C19_Witness ==
    /\ post # NoPost
    /\ post.variant \in {"Question", "Answer"}
    /\ Len(post.comments) = 2
    /\ rendered.appended = 1
    /\ rendered.logged = 1

====
